---- MODULE Spec2Model ----
(***************************************************************************)
(* Model of the chunking and hierarchical summarization pipeline of        *)
(* app.py: chunk_text (lines 84-105) and summarize_text (lines 107-148).   *)
(* A Python str is a sequence of one-character strings.  The summarizer    *)
(* passed to summarize_text is the environment: each call to it either     *)
(* returns one of the strings of Summaries or raises.                      *)
(***************************************************************************)
EXTENDS Integers, Sequences, FiniteSets, TLC

VARIABLES text, max_length, min_length, budget, pc, chunks, idx, summaries,
          combined_summary, pending, calls, result, outcome

vars == <<text, max_length, min_length, budget, pc, chunks, idx, summaries,
          combined_summary, pending, calls, result, outcome>>

-----------------------------------------------------------------------------
(* Bounds of the model                                                     *)

\* SpecChunk: longest text, largest budget
MaxLen == 5
MaxBudget == 4
\* Spec: number of pieces a text is assembled from
MaxPieces == 3

-----------------------------------------------------------------------------
(* Literals of the program                                                 *)

MIN_TEXT_CHARS == 50
CHUNK_MAX_LENGTH == 1024
MIN_CHUNK_CHARS == 50
COLLAPSE_WORDS == 200
DEFAULT_MAX_LENGTH == 130
DEFAULT_MIN_LENGTH == 30

TooShortMsg == <<"T", "e", "x", "t", " ", "i", "s", " ", "t", "o", "o", " ", "s", "h", "o", "r", "t", " ", "t", "o", " ", "s", "u", "m", "m", "a", "r", "i", "z", "e", ".">>

UnableMsg == <<"U", "n", "a", "b", "l", "e", " ", "t", "o", " ", "g", "e", "n", "e", "r", "a", "t", "e", " ", "s", "u", "m", "m", "a", "r", "y", ".">>

-----------------------------------------------------------------------------
(* str methods                                                             *)

Whitespace == {" ", "\n"}

IsSpace(c) == c \in Whitespace

Indices(s) == [i \in 1..Len(s) |-> i]

\* F applied to the value of v, which is computed once
Bind(v, F(_)) == CHOOSE r \in {F(x) : x \in {v}} : TRUE

\* the slices of s that start and end at the given indices
Slices(s, starts, ends) ==
    [k \in 1..Len(starts) |-> SubSeq(s, starts[k], ends[k])]

SplitValue(s) ==
    LET IsStart(i) == ~IsSpace(s[i]) /\ (i = 1 \/ IsSpace(s[i-1]))
        IsEnd(i)   == ~IsSpace(s[i]) /\ (i = Len(s) \/ IsSpace(s[i+1]))
    IN  Bind(<<SelectSeq(Indices(s), IsStart), SelectSeq(Indices(s), IsEnd)>>,
             LAMBDA b : Slices(s, b[1], b[2]))

\* str.split(): the maximal runs of non-whitespace characters, in order
split(s) == Bind(s, SplitValue)

StripValue(s) ==
    Bind(SelectSeq(Indices(s), LAMBDA i : ~IsSpace(s[i])),
         LAMBDA black : IF black = <<>> THEN <<>>
                        ELSE SubSeq(s, black[1], black[Len(black)]))

\* str.strip(): drop leading and trailing whitespace
strip(s) == Bind(s, StripValue)

\* " ".join(list)
RECURSIVE join(_)
join(list) ==
    IF list = <<>> THEN <<>>
    ELSE IF Len(list) = 1 THEN list[1]
    ELSE list[1] \o <<" ">> \o join(Tail(list))

-----------------------------------------------------------------------------
(* chunk_text                                                              *)

word_length_nospace(word) == Len(word)

word_length(word) == Len(word) + 1

\* one iteration of the for loop over words
ChunkStep(st, word, maxlen) ==
    IF st.current_length + word_length(word) > maxlen
    THEN [chunks |-> IF st.current_chunk # <<>>
                     THEN Append(st.chunks, join(st.current_chunk))
                     ELSE st.chunks,
          current_chunk |-> <<word>>,
          current_length |-> word_length(word)]
    ELSE [chunks |-> st.chunks,
          current_chunk |-> Append(st.current_chunk, word),
          current_length |-> st.current_length + word_length(word)]

\* the for loop of lines 91-100, from word i on
RECURSIVE ChunkLoop(_, _, _, _)
ChunkLoop(words, i, st, maxlen) ==
    IF i > Len(words) THEN st
    ELSE Bind(ChunkStep(st, words[i], maxlen),
              LAMBDA nx : ChunkLoop(words, i + 1, nx, maxlen))

\* lines 86-89 and the loop
ChunkRun(s, maxlen) ==
    Bind(split(s),
         LAMBDA words :
             ChunkLoop(words, 1,
                       [chunks |-> <<>>, current_chunk |-> <<>>,
                        current_length |-> 0],
                       maxlen))

\* lines 102-103
Flush(st) ==
    IF st.current_chunk # <<>>
    THEN Append(st.chunks, join(st.current_chunk))
    ELSE st.chunks

NoFlush(st) == st.chunks

chunk_text_noflush(s, maxlen) == Bind(ChunkRun(s, maxlen), NoFlush)

chunk_text(s, maxlen) == Bind(ChunkRun(s, maxlen), Flush)

-----------------------------------------------------------------------------
(* Inputs                                                                  *)

Rep(c, n) == [i \in 1..n |-> c]

\* n one-character words separated by single spaces
WordsOf(c, n) == [i \in 1..(2 * n - 1) |-> IF i % 2 = 1 THEN c ELSE " "]

RECURSIVE Flatten(_)
Flatten(ps) == IF ps = <<>> THEN <<>> ELSE Head(ps) \o Flatten(Tail(ps))

SeqsUpTo(S, n) == UNION {[1..k -> S] : k \in 0..n}

\* SpecChunk: every text of at most MaxLen characters
SmallTexts == SeqsUpTo({"a", "b", " ", "\n"}, MaxLen)

\* Spec: texts assembled from a run of whitespace as long as the 50-character
\* threshold, a one-letter word, a word one character under the threshold and
\* a line holding one word that fills a chunk
Pieces == {Rep(" ", MIN_TEXT_CHARS - 1) \o <<"\n">>,
           <<"a">>,
           Rep("b", MIN_TEXT_CHARS - 1),
           Rep("a", CHUNK_MAX_LENGTH - 2) \o <<"\n">>}

Texts == {Flatten(ps) : ps \in SeqsUpTo(Pieces, MaxPieces)}

\* what the summarizer may return: the empty string, half as many words as
\* the collapse threshold, one word more than the threshold
Summaries == {<<>>,
              WordsOf("p", COLLAPSE_WORDS \div 2),
              WordsOf("r", COLLAPSE_WORDS + 1)}

\* the caller's max_length and min_length: the defaults of line 107, or others
Params == {[max_length |-> DEFAULT_MAX_LENGTH, min_length |-> DEFAULT_MIN_LENGTH],
           [max_length |-> 60, min_length |-> 10]}

-----------------------------------------------------------------------------
(* Mutations of the code against which the properties are tested           *)

\* line 109 without the strip()
IsTooShortUntrimmed(s) == s = <<>> \/ Len(s) < MIN_TEXT_CHARS

\* line 135 with the threshold one word too high
NeedsCollapseLate(s) == Len(split(s)) > COLLAPSE_WORDS + 1

\* line 126 inserting at the front of the list
PrependSummary(list, s) == <<s>> \o list

-----------------------------------------------------------------------------
(* summarize_text                                                          *)

\* line 109
IsTooShort(s) == s = <<>> \/ Len(strip(s)) < MIN_TEXT_CHARS

\* line 117
IsChunkTooShort(chunk) == Len(strip(chunk)) < MIN_CHUNK_CHARS

\* line 135
NeedsCollapse(s) == Len(split(s)) > COLLAPSE_WORDS

\* the arguments of summarizer(...) at lines 120-125 and 137-142
SummarizerCall(input, k) ==
    [text |-> input, max_length |-> max_length, min_length |-> min_length,
     chunk |-> k]

Completed(ok, out) ==
    [text |-> pending[1].text, max_length |-> pending[1].max_length,
     min_length |-> pending[1].min_length, chunk |-> pending[1].chunk,
     ok |-> ok, out |-> out]

\* lines 127-129 without the try: the exception leaves summarize_text
ChunkFailPropagates ==
    /\ pc = "PerChunkSummarizing"
    /\ pending # <<>>
    /\ calls' = Append(calls, Completed(FALSE, <<>>))
    /\ pending' = <<>>
    /\ outcome' = "raised"
    /\ pc' = "Done"
    /\ UNCHANGED <<text, max_length, min_length, budget, chunks, idx,
                   summaries, combined_summary, result>>

\* lines 127-129 with break in place of continue
ChunkFailBreak ==
    /\ pc = "PerChunkSummarizing"
    /\ pending # <<>>
    /\ calls' = Append(calls, Completed(FALSE, <<>>))
    /\ pending' = <<>>
    /\ idx' = Len(chunks) + 1
    /\ UNCHANGED <<text, max_length, min_length, budget, pc, chunks,
                   summaries, combined_summary, result, outcome>>

\* lines 127-129 returning the sentinel at the first failure
ChunkFailAbort ==
    /\ pc = "PerChunkSummarizing"
    /\ pending # <<>>
    /\ calls' = Append(calls, Completed(FALSE, <<>>))
    /\ pending' = <<>>
    /\ result' = UnableMsg
    /\ outcome' = "returned"
    /\ pc' = "Done"
    /\ UNCHANGED <<text, max_length, min_length, budget, chunks, idx,
                   summaries, combined_summary>>

\* lines 144-145 returning the sentinel in place of the combined summary
CollapseFailUnable ==
    /\ pc = "Collapsing"
    /\ pending # <<>>
    /\ result' = UnableMsg
    /\ calls' = Append(calls, Completed(FALSE, <<>>))
    /\ outcome' = "returned"
    /\ pending' = <<>>
    /\ pc' = "Done"
    /\ UNCHANGED <<text, max_length, min_length, budget, chunks, idx,
                   summaries, combined_summary>>

\* lines 132-148 where an empty list of summaries is joined like any other
CombineNoSentinel ==
    /\ pc = "Combining"
    /\ \E combined \in {join(summaries)} :
          /\ combined_summary' = combined
          /\ IF NeedsCollapse(combined)
             THEN /\ pc' = "Collapsing"
                  /\ UNCHANGED <<result, outcome>>
             ELSE /\ result' = combined
                  /\ outcome' = "returned"
                  /\ pc' = "Done"
    /\ UNCHANGED <<text, max_length, min_length, budget, chunks, idx,
                   summaries, pending, calls>>

Init ==
    /\ text \in Texts
    /\ \E p \in Params : max_length = p.max_length /\ min_length = p.min_length
    /\ budget = 0
    /\ pc = "Idle"
    /\ chunks = <<>>
    /\ idx = 0
    /\ summaries = <<>>
    /\ combined_summary = <<>>
    /\ pending = <<>>
    /\ calls = <<>>
    /\ result = <<>>
    /\ outcome = "running"

\* lines 109-110: the text is too short, return the sentinel
Reject ==
    /\ pc = "Idle"
    /\ IsTooShort(text)
    /\ result' = TooShortMsg
    /\ outcome' = "returned"
    /\ pc' = "Done"
    /\ UNCHANGED <<text, max_length, min_length, budget, chunks, idx,
                   summaries, combined_summary, pending, calls>>

\* line 109: the text passes the check
Accept ==
    /\ pc = "Idle"
    /\ ~IsTooShort(text)
    /\ pc' = "Chunking"
    /\ UNCHANGED <<text, max_length, min_length, budget, chunks, idx,
                   summaries, combined_summary, pending, calls, result,
                   outcome>>

\* lines 113-114
Chunk ==
    /\ pc = "Chunking"
    /\ budget' = CHUNK_MAX_LENGTH
    /\ chunks' = chunk_text(text, CHUNK_MAX_LENGTH)
    /\ summaries' = <<>>
    /\ idx' = 1
    /\ pc' = "PerChunkSummarizing"
    /\ UNCHANGED <<text, max_length, min_length, combined_summary, pending,
                   calls, result, outcome>>

\* lines 116-118: a chunk under 50 characters is passed over
SkipChunk ==
    /\ pc = "PerChunkSummarizing"
    /\ pending = <<>>
    /\ idx <= Len(chunks)
    /\ IsChunkTooShort(chunks[idx])
    /\ idx' = idx + 1
    /\ UNCHANGED <<text, max_length, min_length, budget, pc, chunks,
                   summaries, combined_summary, pending, calls, result,
                   outcome>>

\* lines 116-125: the summarizer is called on the chunk
InvokeChunk ==
    /\ pc = "PerChunkSummarizing"
    /\ pending = <<>>
    /\ idx <= Len(chunks)
    /\ ~IsChunkTooShort(chunks[idx])
    /\ pending' = <<SummarizerCall(chunks[idx], idx)>>
    /\ UNCHANGED <<text, max_length, min_length, budget, pc, chunks, idx,
                   summaries, combined_summary, calls, result, outcome>>

AppendSummary(list, s) == Append(list, s)

\* line 126: the call returned, its summary is collected
ChunkReturn ==
    /\ pc = "PerChunkSummarizing"
    /\ pending # <<>>
    /\ \E s \in Summaries :
          /\ summaries' = AppendSummary(summaries, s)
          /\ calls' = Append(calls, Completed(TRUE, s))
    /\ pending' = <<>>
    /\ idx' = idx + 1
    /\ UNCHANGED <<text, max_length, min_length, budget, pc, chunks,
                   combined_summary, result, outcome>>

\* lines 127-129: the call raised, the loop goes on with the next chunk
ChunkFail ==
    /\ pc = "PerChunkSummarizing"
    /\ pending # <<>>
    /\ calls' = Append(calls, Completed(FALSE, <<>>))
    /\ pending' = <<>>
    /\ idx' = idx + 1
    /\ UNCHANGED <<text, max_length, min_length, budget, pc, chunks,
                   summaries, combined_summary, result, outcome>>

\* line 116: the loop is exhausted
EndLoop ==
    /\ pc = "PerChunkSummarizing"
    /\ pending = <<>>
    /\ idx > Len(chunks)
    /\ pc' = "Combining"
    /\ UNCHANGED <<text, max_length, min_length, budget, chunks, idx,
                   summaries, combined_summary, pending, calls, result,
                   outcome>>

\* lines 132-135 and 146-148
Combine ==
    /\ pc = "Combining"
    /\ IF summaries = <<>>
       THEN /\ result' = UnableMsg
            /\ outcome' = "returned"
            /\ pc' = "Done"
            /\ UNCHANGED combined_summary
       ELSE \E combined \in {join(summaries)} :
               /\ combined_summary' = combined
               /\ IF NeedsCollapse(combined)
                  THEN /\ pc' = "Collapsing"
                       /\ UNCHANGED <<result, outcome>>
                  ELSE /\ result' = combined
                       /\ outcome' = "returned"
                       /\ pc' = "Done"
    /\ UNCHANGED <<text, max_length, min_length, budget, chunks, idx,
                   summaries, pending, calls>>

\* lines 136-142: the summarizer is called on the combined summary
InvokeCollapse ==
    /\ pc = "Collapsing"
    /\ pending = <<>>
    /\ pending' = <<SummarizerCall(combined_summary, 0)>>
    /\ UNCHANGED <<text, max_length, min_length, budget, pc, chunks, idx,
                   summaries, combined_summary, calls, result, outcome>>

\* line 143
CollapseReturn ==
    /\ pc = "Collapsing"
    /\ pending # <<>>
    /\ \E s \in Summaries :
          /\ result' = s
          /\ calls' = Append(calls, Completed(TRUE, s))
    /\ outcome' = "returned"
    /\ pending' = <<>>
    /\ pc' = "Done"
    /\ UNCHANGED <<text, max_length, min_length, budget, chunks, idx,
                   summaries, combined_summary>>

\* lines 144-145
CollapseFail ==
    /\ pc = "Collapsing"
    /\ pending # <<>>
    /\ result' = combined_summary
    /\ calls' = Append(calls, Completed(FALSE, <<>>))
    /\ outcome' = "returned"
    /\ pending' = <<>>
    /\ pc' = "Done"
    /\ UNCHANGED <<text, max_length, min_length, budget, chunks, idx,
                   summaries, combined_summary>>

Next ==
    \/ Reject
    \/ Accept
    \/ Chunk
    \/ SkipChunk
    \/ InvokeChunk
    \/ ChunkReturn
    \/ ChunkFail
    \/ EndLoop
    \/ Combine
    \/ InvokeCollapse
    \/ CollapseReturn
    \/ CollapseFail

Spec == Init /\ [][Next]_vars

\* the code is sequential and every summarizer call completes
FairSpec == Spec /\ WF_vars(Next)

-----------------------------------------------------------------------------
(* chunk_text on its own, for any text and any positive budget             *)

InitChunk ==
    /\ text \in SmallTexts
    /\ budget \in 1..MaxBudget
    /\ max_length = DEFAULT_MAX_LENGTH
    /\ min_length = DEFAULT_MIN_LENGTH
    /\ pc = "Call"
    /\ chunks = <<>>
    /\ idx = 0
    /\ summaries = <<>>
    /\ combined_summary = <<>>
    /\ pending = <<>>
    /\ calls = <<>>
    /\ result = <<>>
    /\ outcome = "running"

ChunkCall ==
    /\ pc = "Call"
    /\ chunks' = chunk_text(text, budget)
    /\ pc' = "Chunked"
    /\ UNCHANGED <<text, max_length, min_length, budget, idx, summaries,
                   combined_summary, pending, calls, result, outcome>>

NextChunk == ChunkCall

SpecChunk == InitChunk /\ [][NextChunk]_vars

-----------------------------------------------------------------------------
(* Properties of chunk_text, checked under SpecChunk                       *)

Chunked == pc = "Chunked"

HasSpace(s) == \E i \in 1..Len(s) : IsSpace(s[i])

\* C1: joining the chunks of chunk_text(text, budget) with single spaces and
\* splitting the result on whitespace gives exactly the words of the text,
\* for every text and every positive budget.
LosslessChunking == Chunked => split(join(chunks)) = split(text)

LosslessWitness ==
    /\ Chunked
    /\ Len(chunks) >= 2
    /\ \E i \in 1..Len(chunks) : HasSpace(chunks[i])
    /\ split(join(chunks)) = split(text)

\* C2: every chunk is at most budget characters long unless it is a single
\* word longer than the budget; a word longer than the budget is a chunk of
\* its own, whole.
BudgetRespect ==
    Chunked =>
        /\ \A i \in 1..Len(chunks) :
              \/ Len(chunks[i]) <= budget
              \/ ~HasSpace(chunks[i]) /\ Len(chunks[i]) > budget
        /\ \A w \in {split(text)[k] : k \in 1..Len(split(text))} :
              Len(w) > budget => \E i \in 1..Len(chunks) : chunks[i] = w

BudgetWitness ==
    /\ Chunked
    /\ Len(chunks) >= 2
    /\ \E i \in 1..Len(chunks) : Len(chunks[i]) > budget
    /\ \E i \in 1..Len(chunks) : Len(chunks[i]) <= budget

-----------------------------------------------------------------------------
(* Properties of summarize_text, checked under Spec                        *)

Done == pc = "Done"

\* the call was not turned away at line 109
Passed == text # <<>> /\ Len(strip(text)) >= 50

ChunkCalls == SelectSeq(calls, LAMBDA c : c.chunk > 0)

CollapseCalls == SelectSeq(calls, LAMBDA c : c.chunk = 0)

\* the summaries the per-chunk calls returned, in the order of their chunks
Produced ==
    LET ok(k) == \E n \in 1..Len(calls) : calls[n].chunk = k /\ calls[n].ok
        of(k) == calls[CHOOSE n \in 1..Len(calls) :
                          calls[n].chunk = k /\ calls[n].ok].out
        ks == SelectSeq(Indices(chunks), ok)
    IN  [j \in 1..Len(ks) |-> of(ks[j])]

PassedThrough(c) == c.max_length = max_length /\ c.min_length = min_length

\* C3: summarize_text never raises: whatever calls of the summarizer fail,
\* the call ends by returning a string.
NeverRaises ==
    /\ outcome # "raised"
    /\ Done => outcome = "returned" /\ result \in Seq(STRING)

NeverRaisesWitness ==
    /\ Done
    /\ outcome = "returned"
    /\ \E n \in 1..Len(calls) : calls[n].chunk > 0 /\ ~calls[n].ok
    /\ \E n \in 1..Len(calls) : calls[n].chunk = 0 /\ ~calls[n].ok

\* C4: a text that is empty or whose trimmed length is under 50 is answered
\* with "Text is too short to summarize." and the summarizer is never called.
ShortInputFastPath ==
    ~Passed =>
        /\ pending = <<>> /\ calls = <<>> /\ chunks = <<>>
        /\ Done => result = TooShortMsg /\ outcome = "returned"

ShortInputWitness ==
    /\ Done
    /\ Len(text) >= 50
    /\ Len(strip(text)) = 49
    /\ result = TooShortMsg

\* C5: for a text that passes the check, "Unable to generate summary." is
\* returned when no per-chunk summary was produced; when one was, the
\* combined summary or its collapse is returned.
GracefulDegradation ==
    Done /\ Passed =>
        /\ outcome = "returned"
        /\ IF Produced = <<>>
           THEN result = UnableMsg
           ELSE \/ result = join(Produced)
                \/ /\ CollapseCalls # <<>>
                   /\ CollapseCalls[1].ok
                   /\ result = CollapseCalls[1].out

UnableBySkipWitness ==
    /\ Done /\ Passed
    /\ calls = <<>>
    /\ result = UnableMsg

\* C6: when the joined per-chunk summaries hold more than 200 words, the
\* summarizer is called exactly once more, on the combined summary, after all
\* per-chunk calls; its output, if it succeeds, is returned as it is, however
\* long.
CollapseTrigger ==
    Done /\ Produced # <<>> /\ Len(split(join(Produced))) > 200 =>
        /\ Len(CollapseCalls) = 1
        /\ calls[Len(calls)].chunk = 0
        /\ calls[Len(calls)].text = join(Produced)
        /\ PassedThrough(calls[Len(calls)])
        /\ calls[Len(calls)].ok => result = calls[Len(calls)].out

CollapseTriggerWitness ==
    /\ Done
    /\ Len(split(join(Produced))) = 201
    /\ Len(CollapseCalls) = 1
    /\ CollapseCalls[1].ok
    /\ result = CollapseCalls[1].out
    /\ Len(split(result)) > 200

\* C7: the combined summary is the single-space join of the summaries the
\* per-chunk calls returned, in the order of their chunks; skipped and failed
\* chunks add nothing.
OrderPreservation ==
    /\ summaries # <<>> /\ pc \in {"Combining", "Collapsing", "Done"} =>
          summaries = Produced
    /\ Done /\ Produced # <<>> => combined_summary = join(Produced)

OrderWitness ==
    /\ Done
    /\ Len(Produced) = 2
    /\ Produced[1] # Produced[2]
    /\ \E n \in 1..Len(calls) : calls[n].chunk > 0 /\ ~calls[n].ok
    /\ combined_summary = join(Produced)

\* C8: when the collapse call fails, the combined summary that was passed to
\* it is returned unchanged.
CollapseFallback ==
    Done /\ CollapseCalls # <<>> /\ ~CollapseCalls[1].ok =>
        /\ outcome = "returned"
        /\ result = CollapseCalls[1].text
        /\ result = join(Produced)

CollapseFallbackWitness ==
    /\ Done
    /\ CollapseCalls # <<>>
    /\ ~CollapseCalls[1].ok
    /\ result = join(Produced)
    /\ Len(split(result)) > 200

\* C9: the summarizer is called exactly once, with the caller's max_length and
\* min_length, on every chunk of chunk_text(text, 1024) whose trimmed length
\* is at least 50, in order, and on no other chunk, whether or not earlier
\* calls failed.
PerChunkInvocation ==
    Done /\ Passed =>
        LET cs == chunk_text(text, 1024)
            due == SelectSeq(Indices(cs), LAMBDA k : Len(strip(cs[k])) >= 50)
        IN  /\ Len(ChunkCalls) = Len(due)
            /\ \A j \in 1..Len(due) :
                  /\ ChunkCalls[j].chunk = due[j]
                  /\ ChunkCalls[j].text = cs[due[j]]
                  /\ PassedThrough(ChunkCalls[j])

PerChunkWitness ==
    /\ Done
    /\ Len(chunks) = 3
    /\ Len(ChunkCalls) = 2
    /\ ~ChunkCalls[1].ok
    /\ ChunkCalls[2].ok
    /\ ChunkCalls[2].chunk = 2

-----------------------------------------------------------------------------
(* The phases of a call, checked under FairSpec                            *)

StrictEdges ==
    {<<"Idle", "Chunking">>, <<"Chunking", "PerChunkSummarizing">>,
     <<"PerChunkSummarizing", "Combining">>, <<"Combining", "Done">>,
     <<"Combining", "Collapsing">>, <<"Collapsing", "Done">>}

\* a call of the summarizer starts only when none is in flight, and the call
\* for a chunk only after every call for an earlier chunk has completed and
\* none for a later one has started
OneAtATime ==
    pending' # pending /\ pending' # <<>> =>
        /\ pending = <<>>
        /\ \A n \in 1..Len(calls) :
              pending'[1].chunk > 0 => calls[n].chunk < pending'[1].chunk

\* C10 as stated: the phase changes only along Idle -> Chunking ->
\* PerChunkSummarizing -> Combining -> Done or Combining -> Collapsing ->
\* Done, calls are made one at a time in document order, and the call
\* reaches Done.
PhaseOrderStrict ==
    /\ [][(pc' # pc => <<pc, pc'>> \in StrictEdges) /\ OneAtATime]_vars
    /\ <>Done

\* C10 amended: as above, with one more edge, Idle -> Done, taken exactly by
\* the calls whose text is empty or under 50 characters once trimmed.
PhaseOrder ==
    /\ [][/\ pc' # pc =>
                \/ <<pc, pc'>> \in StrictEdges
                \/ pc = "Idle" /\ pc' = "Done" /\ ~Passed
          /\ pc = "Idle" /\ pc' = "Chunking" => Passed
          /\ OneAtATime]_vars
    /\ <>Done

PhaseOrderWitness ==
    /\ Done
    /\ Len(ChunkCalls) >= 2
    /\ Len(CollapseCalls) = 1

====
